---------------------------- MODULE Spec2Model ----------------------------
(***************************************************************************)
(* A model of translation_agent: the PromptTemplate / PromptConfig         *)
(* placeholder machinery (prompts.py) and SimpleTranslationAgent           *)
(* (agents.py), whose agentic_translate runs three stage methods           *)
(* (translate, reflect, improve), each over a ThreadPoolExecutor.          *)
(*                                                                         *)
(* Texts (Python str) are sequences of atoms (TLA+ strings); str           *)
(* concatenation is \o.  Unit indices are 0-based as in the code; a        *)
(* Python list l is a TLA+ sequence and l[idx] is l[idx + 1].              *)
(* A dict is a function whose domain is its set of keys.                   *)
(***************************************************************************)
EXTENDS Integers, Sequences, FiniteSets, TLC

\* ------------------------------------------------------------------ bounds
\* Largest number of chunks the splitter returns for the documents tried.
MaxUnits == 3
\* Largest max_workers an agent is constructed with.
MaxWorkers == 2
\* The longest template string handed to PromptTemplate.get_formatted, in pieces.
MaxLen == 2
\* The longest text handed to a splitter, in characters.
MaxText == 4
\* The largest num_chunks of a UniformTextSplitter.
MaxChunks == 3
\* The largest token_count and token_limit handed to calculate_chunk_size.
MaxTokens == 9

\* --------------------------------------------------------------- templates
\* A template-string is a sequence of items: literal text, or a {name} field.
Lit(s) == [ph |-> FALSE, v |-> s]
Ph(n) == [ph |-> TRUE, v |-> n]

EmptyDict == [k \in {} |-> <<>>]

\* dict | dict : the right operand wins.
DictMerge(a, b) ==
  [k \in (DOMAIN a) \cup (DOMAIN b) |-> IF k \in DOMAIN b THEN b[k] ELSE a[k]]

\* d[k] = v on a dict.
DictPut(d, k, v) ==
  [x \in (DOMAIN d) \cup {k} |-> IF x = k THEN v ELSE d[x]]

\* PromptTemplate.get_string_placeholders: the field names, in order of appearance.
RECURSIVE get_string_placeholders(_)
get_string_placeholders(str) ==
  IF str = <<>> THEN <<>>
  ELSE (IF Head(str).ph THEN <<Head(str).v>> ELSE <<>>)
         \o get_string_placeholders(Tail(str))

SeqRange(s) == {s[i] : i \in DOMAIN s}

\* A placeholders_in_dict that raises on extra keys as well.
placeholders_in_dict_strict(str, kwargs) ==
  IF SeqRange(get_string_placeholders(str)) = DOMAIN kwargs THEN "ok" ELSE "raise"

\* PromptTemplate.placeholders_in_dict: "raise" when a placeholder of the string
\* has no key in kwargs, else "warn" (returns False) on extra keys, else "ok".
placeholders_in_dict(str, kwargs) ==
  LET str_set == SeqRange(get_string_placeholders(str))
      kwargs_set == DOMAIN kwargs
  IN IF ~(str_set \subseteq kwargs_set) THEN "raise"
     ELSE IF ~(kwargs_set \subseteq str_set) THEN "warn"
     ELSE "ok"

\* str.format(**kwargs) on a string all of whose fields are bound.
RECURSIVE Format(_, _)
Format(str, kwargs) ==
  IF str = <<>> THEN <<>>
  ELSE (IF Head(str).ph THEN kwargs[Head(str).v] ELSE <<Head(str).v>>)
         \o Format(Tail(str), kwargs)

\* A get_formatted whose error names one missing placeholder only.
get_formatted_first_missing(to_format, format_kwargs) ==
  LET missing == SeqRange(get_string_placeholders(to_format)) \ DOMAIN format_kwargs
  IN IF placeholders_in_dict(to_format, format_kwargs) = "raise"
     THEN [ok |-> FALSE, text |-> <<>>,
           missing |-> IF missing = {} THEN {} ELSE {CHOOSE n \in missing : TRUE}]
     ELSE [ok |-> TRUE, text |-> Format(to_format, format_kwargs), missing |-> {}]

\* PromptTemplate.get_formatted: [ok |-> FALSE] stands for the ValueError, whose
\* message holds str_set - kwargs_set (missing).
get_formatted(to_format, format_kwargs) ==
  IF placeholders_in_dict(to_format, format_kwargs) = "raise"
  THEN [ok |-> FALSE, text |-> <<>>,
        missing |-> SeqRange(get_string_placeholders(to_format)) \ DOMAIN format_kwargs]
  ELSE [ok |-> TRUE, text |-> Format(to_format, format_kwargs), missing |-> {}]

\* PromptTemplate.get_formatted_prompt / get_formatted_sysmsg.
get_formatted_prompt(t, kwargs) ==
  get_formatted(t.prompt, DictMerge(t.prompt_kwargs, kwargs))

get_formatted_sysmsg(t, kwargs) ==
  get_formatted(t.sysmsg, DictMerge(t.sysmsg_kwargs, kwargs))

\* PromptTemplate(prompt, sysmsg) built without placeholder_kwargs.
PromptTemplate(prompt, sysmsg) ==
  [prompt |-> prompt, sysmsg |-> sysmsg,
   prompt_kwargs |-> EmptyDict, sysmsg_kwargs |-> EmptyDict]

\* The template strings tried: the three shipped shapes, one without
\* source_chunk, and a system message that refers to the chunk.
TranslationBody ==
  <<Lit("translate"), Ph("source_lang"), Ph("target_lang"),
    Ph("source_tagged"), Ph("source_chunk")>>
ReflectionBody == TranslationBody \o <<Lit("given"), Ph("translated_chunk")>>
ImprovementBody == ReflectionBody \o <<Lit("advice"), Ph("reflection_chunk")>>
NoChunkBody == <<Lit("translate"), Ph("source_lang"), Ph("target_lang")>>
BaseSysmsg == <<Lit("expert"), Ph("source_lang"), Ph("target_lang")>>
ChunkSysmsg == BaseSysmsg \o <<Ph("source_chunk")>>

Templates ==
  { PromptTemplate(TranslationBody, BaseSysmsg),
    PromptTemplate(ReflectionBody, BaseSysmsg),
    PromptTemplate(ImprovementBody, BaseSysmsg),
    PromptTemplate(NoChunkBody, BaseSysmsg),
    PromptTemplate(ImprovementBody, ChunkSysmsg) }

\* ------------------------------------------------------------ PromptConfig
PromptTypes == <<"translation", "reflection", "improvement">>

REQUIRED_PROMPT_PLACEHOLDERS_NoTranslated ==
  [translation |-> <<"source_lang", "target_lang", "source_chunk">>,
   reflection |-> <<"source_lang", "target_lang", "source_chunk">>,
   improvement |-> <<"source_lang", "target_lang", "source_chunk",
                     "translated_chunk", "reflection_chunk">>]

REQUIRED_PROMPT_PLACEHOLDERS ==
  [translation |-> <<"source_lang", "target_lang", "source_chunk">>,
   reflection |-> <<"source_lang", "target_lang", "source_chunk",
                    "translated_chunk">>,
   improvement |-> <<"source_lang", "target_lang", "source_chunk",
                     "translated_chunk", "reflection_chunk">>]

\* The (prompt_type, placeholder) pairs PromptConfig.__init__ finds missing, in
\* the order its two loops visit them; it raises at the first.
RECURSIVE MissingOf(_, _, _)
MissingOf(ptype, required, have) ==
  IF required = <<>> THEN <<>>
  ELSE (IF Head(required) \in have THEN <<>> ELSE <<<<ptype, Head(required)>>>>)
         \o MissingOf(ptype, Tail(required), have)

RECURSIVE MissingFrom(_, _)
MissingFrom(ps, types) ==
  IF types = <<>> THEN <<>>
  ELSE MissingOf(Head(types), REQUIRED_PROMPT_PLACEHOLDERS[Head(types)],
                 SeqRange(get_string_placeholders(ps[Head(types)].prompt)))
         \o MissingFrom(ps, Tail(types))

\* ------------------------------------------------------------------- agent
Stages == {"translate", "reflect", "improve"}

\* The template a stage method passes to query_model.
StageTemplate(ps, s) ==
  CASE s = "translate" -> ps["translation"]
    [] s = "reflect" -> ps["reflection"]
    [] OTHER -> ps["improvement"]

source_lang == <<"English">>
target_lang == <<"Spanish">>
source_text_tag == "TRANSLATE_THIS"

default_kwargs == [source_lang |-> source_lang, target_lang |-> target_lang]

\* What the splitter returns for the documents tried: n chunks, chunk i distinct.
SourceChunks(n) == [i \in 1..n |-> <<"src", ToString(i - 1)>>]

\* The completion the client returns to the call made for unit idx in stage s.
\* Its content is opaque to the agent; it is named after the call it answers.
Completion(s, idx) == <<s, ToString(idx)>>

\* "".join(...) replaced by " ".join(...).
RECURSIVE JoinWithSeparator(_)
JoinWithSeparator(l) ==
  IF l = <<>> THEN <<>>
  ELSE IF Len(l) = 1 THEN Head(l)
  ELSE Head(l) \o <<" ">> \o JoinWithSeparator(Tail(l))

\* "".join(list of str)
RECURSIVE Join(_)
Join(l) == IF l = <<>> THEN <<>> ELSE Head(l) \o Join(Tail(l))

\* A tag_chunk that leaves the closing tag out.
tag_chunk_unclosed(chunk, tag) == <<"<", tag, ">">> \o chunk

\* SimpleTranslationAgent.tag_chunk
tag_chunk(chunk, tag) == <<"<", tag, ">">> \o chunk \o <<"</", tag, ">">>

\* l[a:b] for 0 <= a, on a list l.
Slice(l, a, b) ==
  LET hi == IF b > Len(l) THEN Len(l) ELSE b
  IN IF a >= hi THEN <<>> ELSE SubSeq(l, a + 1, hi)

VARIABLES
  prompts,       \* the three PromptTemplates handed to PromptConfig
  cfg,           \* PromptConfig: "unbuilt", "ok" (constructed), "error" (raised)
  cfgErr,        \* the (prompt_type, placeholder) the ValueError names
  pc,            \* the caller's position
  stage,         \* the stage method being executed, or "none"
  max_workers,   \* the agent's max_workers
  clear_buffer,  \* the argument of the agentic_translate call
  buffer,        \* self._buffer: [none |-> TRUE] is None, else the dict d
  nextIdx,       \* the next idx of the stage's submitting comprehension
  futures,       \* the tasks submitted in this run, by <<stage, idx>>;
                 \* calls counts the task's llm.get_completion invocations
  output,        \* the (idx, completion) list, as collected, of the stage method
                 \* called last ("output = []" on entry)
  printed,       \* the (stage, idx) of the error lines printed
  ret,           \* per stage method: not called, active, returned (with its list), raised
  exc,           \* the exception agentic_translate ends with, or "none"
  final,         \* the string agentic_translate returns
  warnings,      \* the warnings issued
  rnd,           \* a single call of PromptTemplate.get_formatted (SpecRender)
  ovl,           \* two overlapping agentic_translate calls on one agent (SpecOverlap)
  call           \* a single call of a splitter method or of get_tagged_source_text

vars == <<prompts, cfg, cfgErr, pc, stage, max_workers, clear_buffer, buffer,
          nextIdx, futures, output, printed, ret, exc, final, warnings,
          rnd, ovl, call>>

NoneBuffer == [none |-> TRUE, d |-> EmptyDict]
DictBuffer(d) == [none |-> FALSE, d |-> d]

\* `not self._buffer`
BufferFalsy == buffer.none \/ DOMAIN buffer.d = {}

NumChunks == buffer.d["num_chunks"]

\* The buffer property: self._buffer or {}
BufferProperty == IF BufferFalsy THEN EmptyDict ELSE buffer.d

NotCalled == [st |-> "notcalled", out |-> <<>>]

\* No PromptConfig, no agent and no run yet.
NotStarted ==
  /\ cfg = "unbuilt"
  /\ cfgErr = <<>>
  /\ pc = "new"
  /\ stage = "none"
  /\ max_workers = 0
  /\ clear_buffer = TRUE
  /\ buffer = NoneBuffer
  /\ nextIdx = 0
  /\ futures = EmptyDict
  /\ output = <<>>
  /\ printed = {}
  /\ ret = [s \in Stages |-> NotCalled]
  /\ exc = "none"
  /\ final = <<>>
  /\ warnings = {}

Init ==
  /\ prompts \in [{"translation", "reflection", "improvement"} -> Templates]
  /\ NotStarted
  /\ rnd = [pc |-> "off"]
  /\ ovl = [pc |-> "off"]
  /\ call = [pc |-> "off"]


\* ------------------------------------------------- construction (prompts.py)
\* PromptConfig.__init__: raises ValueError at the first required placeholder
\* a prompt lacks; otherwise the PromptConfig exists.
ConstructConfig ==
  /\ pc = "new"
  /\ LET missing == MissingFrom(prompts, PromptTypes)
     IN /\ cfg' = IF missing = <<>> THEN "ok" ELSE "error"
        /\ cfgErr' = IF missing = <<>> THEN <<>> ELSE Head(missing)
  /\ pc' = "configured"
  /\ UNCHANGED <<rnd, ovl, call, prompts, stage, max_workers, clear_buffer, buffer, nextIdx,
                 futures, output, printed, ret, exc, final, warnings>>

\* SimpleTranslationAgent.__init__: needs a PromptConfig instance.
AgentInit(mw) ==
  /\ pc = "configured"
  /\ cfg = "ok"
  /\ max_workers' = mw
  /\ buffer' = NoneBuffer
  /\ pc' = "idle"
  /\ UNCHANGED <<rnd, ovl, call, prompts, cfg, cfgErr, stage, clear_buffer, nextIdx, futures,
                 output, printed, ret, exc, final, warnings>>

\* ---------------------------------------------------------- stage methods
Task(s, i) == futures[<<s, i>>]
Submitted(s) == {i \in 0..(MaxUnits + 1) : <<s, i>> \in DOMAIN futures}
Terminated(s, i) == Task(s, i).st \in {"done", "failed"}
InFlight(s) == {i \in Submitted(s) : Task(s, i).st = "calling"}
Queued(s) == {i \in Submitted(s) : Task(s, i).st = "queued"}

\* ThreadPoolExecutor(max_workers=self.max_workers) of unbounded size.
SlotAlwaysFree(s) == TRUE

\* ThreadPoolExecutor(max_workers=self.max_workers): one of the stage's at most
\* max_workers threads is idle.
SlotFree(s) == Cardinality(InFlight(s)) < max_workers

\* get_tagged_source_text(chunk_idx): the ValueError, or the two bindings.
get_tagged_source_text(chunk_idx) ==
  IF BufferFalsy \/ "source_chunks" \notin DOMAIN buffer.d
  THEN [ok |-> FALSE, kw |-> EmptyDict]
  ELSE LET chnks == buffer.d["source_chunks"]
           tagged == Join(Slice(chnks, 0, chunk_idx)
                          \o <<tag_chunk(chnks[chunk_idx + 1], source_text_tag)>>
                          \o Slice(chnks, chunk_idx + 1, Len(chnks)))
       IN [ok |-> TRUE,
           kw |-> [source_chunk |-> chnks[chunk_idx + 1], source_tagged |-> tagged]]

\* The exception evaluating a stage's prompt_kwargs for idx raises, or "none".
\* The dict display evaluates its entries in order.
BindingError(s, idx) ==
  IF s \in {"reflect", "improve"} /\ idx >= Len(buffer.d["translated_chunks"])
  THEN "IndexError"
  ELSE IF s = "improve" /\ idx >= Len(buffer.d["reflection_chunks"])
  THEN "IndexError"
  ELSE IF ~get_tagged_source_text(idx).ok THEN "ValueError"
  ELSE "none"

\* prompt_kwargs of the submit call for idx (when nothing raises).
PromptKwargs(s, idx) ==
  LET own == CASE s = "translate" -> EmptyDict
               [] s = "reflect" ->
                    [translated_chunk |-> buffer.d["translated_chunks"][idx + 1]]
               [] OTHER ->
                    [translated_chunk |-> buffer.d["translated_chunks"][idx + 1],
                     reflection_chunk |-> buffer.d["reflection_chunks"][idx + 1]]
  IN DictMerge(DictMerge(own, default_kwargs), get_tagged_source_text(idx).kw)

NewTask(s, idx) ==
  [st |-> "queued", kw |-> PromptKwargs(s, idx), syskw |-> default_kwargs,
   prompt |-> <<>>, sysmsg |-> <<>>, res |-> <<>>, cause |-> "none",
   collected |-> FALSE, calls |-> 0]

\* sorted(output, key=lambda x: x[0]): insertion sort, stable.
RECURSIVE InsertByIdx(_, _)
InsertByIdx(x, l) ==
  IF l = <<>> THEN <<x>>
  ELSE IF x[1] < Head(l)[1] THEN <<x>> \o l
  ELSE <<Head(l)>> \o InsertByIdx(x, Tail(l))

RECURSIVE SortedByIdx(_)
SortedByIdx(l) ==
  IF l = <<>> THEN <<>>
  ELSE InsertByIdx(l[Len(l)], SortedByIdx(SubSeq(l, 1, Len(l) - 1)))

ReorderedNoSort(l) == [k \in DOMAIN l |-> l[k][2]]

\* output = [x[1] for x in sorted(output, key=lambda x: x[0])]
Reordered(l) == LET srt == SortedByIdx(l) IN [k \in DOMAIN srt |-> srt[k][2]]

\* as_completed(futures) is exhausted once every future was yielded, and the
\* with-block's exit joins the pool.
FirstCompleted(s) ==
  \/ buffer.d["num_chunks"] = 0
  \/ \E i \in Submitted(s) : Task(s, i).collected

\* A stage method that waits until every unit it submitted has a completion.
PoolDrainedAllSucceeded(s) ==
  \A i \in Submitted(s) : Task(s, i).st = "done" /\ Task(s, i).collected

PoolDrained(s) ==
  \A i \in Submitted(s) : Terminated(s, i) /\ Task(s, i).collected

\* An exit of the with-block that does not wait: shutdown(wait=False).
PoolNotJoined(s) == TRUE

\* The exit of the with-block when the comprehension raised: shutdown(wait=True).
PoolJoined(s) == \A i \in Submitted(s) : Terminated(s, i)

\* An agentic_translate that stores every stage's list under one key.
BufferKeySame(s) == "translated_chunks"

BufferKey(s) ==
  CASE s = "translate" -> "translated_chunks"
    [] s = "reflect" -> "reflection_chunks"
    [] OTHER -> "improved_chunks"

NextStage(s) == IF s = "translate" THEN "reflect" ELSE "improve"

\* An agentic_translate without the check of num_chunks == 1.
TooShortNever(n) == FALSE

\* if self._buffer["num_chunks"] == 1: warn("Source text is too short. ...")
TooShort(n) == n = 1

\* agentic_translate(source_text, clear_buffer) up to the call of translate();
\* n is the number of chunks the splitter returns for source_text.
AgenticTranslate(n, cb) ==
  /\ pc = "idle"
  /\ clear_buffer' = cb
  /\ buffer' = DictBuffer([source_chunks |-> SourceChunks(n), num_chunks |-> n])
  /\ warnings' = warnings
       \cup (IF ~BufferFalsy THEN {"buffer_not_empty"} ELSE {})
       \cup (IF TooShort(n) THEN {"too_short"} ELSE {})
  /\ stage' = "translate"
  /\ ret' = [ret EXCEPT !["translate"] = [st |-> "active", out |-> <<>>]]
  /\ nextIdx' = 0
  /\ output' = <<>>
  /\ pc' = "stage"
  /\ UNCHANGED <<rnd, ovl, call, prompts, cfg, cfgErr, max_workers, futures, printed, exc, final>>

\* One iteration of the dict comprehension: evaluate the arguments, then
\* executor.submit(self.query_model, ...). An exception leaves the with-block.
Submit ==
  /\ pc = "stage"
  /\ nextIdx < NumChunks
  /\ IF BindingError(stage, nextIdx) # "none"
     THEN /\ exc' = BindingError(stage, nextIdx)
          /\ pc' = "unwind"
          /\ UNCHANGED <<futures, nextIdx>>
     ELSE /\ futures' = DictPut(futures, <<stage, nextIdx>>, NewTask(stage, nextIdx))
          /\ nextIdx' = nextIdx + 1
          /\ UNCHANGED <<exc, pc>>
  /\ UNCHANGED <<rnd, ovl, call, prompts, cfg, cfgErr, stage, max_workers, clear_buffer, buffer,
                 output, printed, ret, final, warnings>>

\* A pool whose threads take any queued work item.
AnyQueued(s, i) == TRUE

\* The executor's work queue is first in, first out: i is its oldest item.
OldestQueued(s, i) == \A j \in Queued(s) : i <= j

\* A pool thread takes the oldest queued work item and runs query_model up to
\* the call of llm.get_completion: both strings are rendered first.
WorkerStart(s, i) ==
  /\ i \in Queued(s)
  /\ OldestQueued(s, i)
  /\ SlotFree(s)
  /\ LET t == Task(s, i)
         tm == StageTemplate(prompts, s)
         p == get_formatted_prompt(tm, t.kw)
         m == get_formatted_sysmsg(tm, t.syskw)
         warned == p.ok /\ (placeholders_in_dict(tm.prompt, DictMerge(tm.prompt_kwargs, t.kw)) = "warn"
                     \/ (m.ok /\ placeholders_in_dict(tm.sysmsg, DictMerge(tm.sysmsg_kwargs, t.syskw)) = "warn"))
     IN /\ futures' = [futures EXCEPT ![<<s, i>>] =
             IF p.ok /\ m.ok
             THEN [t EXCEPT !.st = "calling", !.prompt = p.text, !.sysmsg = m.text,
                            !.calls = @ + 1]
             ELSE [t EXCEPT !.st = "failed", !.cause = "render"]]
        /\ warnings' = warnings \cup (IF warned THEN {"extra_parameters"} ELSE {})
  /\ UNCHANGED <<rnd, ovl, call, prompts, cfg, cfgErr, pc, stage, max_workers, clear_buffer,
                 buffer, nextIdx, output, printed, ret, exc, final>>

\* A query_model that stores its completion in self._buffer itself.
ClientReturnWritesBuffer(s, i) ==
  /\ i \in InFlight(s)
  /\ futures' = [futures EXCEPT ![<<s, i>>] =
        [@ EXCEPT !.st = "done", !.res = Completion(s, i)]]
  /\ buffer' = DictBuffer(DictPut(buffer.d, BufferKey(s), <<Completion(s, i)>>))
  /\ UNCHANGED <<rnd, ovl, call, prompts, cfg, cfgErr, pc, stage, max_workers, clear_buffer,
                 nextIdx, output, printed, ret, exc, final, warnings>>

\* A stage method that submits a unit again when its call raised.
ClientRaiseRetried(s, i) ==
  /\ i \in InFlight(s)
  /\ futures' = [futures EXCEPT ![<<s, i>>] = [@ EXCEPT !.st = "queued"]]
  /\ UNCHANGED <<rnd, ovl, call, prompts, cfg, cfgErr, pc, stage, max_workers, clear_buffer,
                 buffer, nextIdx, output, printed, ret, exc, final, warnings>>

\* llm.get_completion returns: query_model returns (chunk_id, completion).
ClientReturn(s, i) ==
  /\ i \in InFlight(s)
  /\ futures' = [futures EXCEPT ![<<s, i>>] =
        [@ EXCEPT !.st = "done", !.res = Completion(s, i)]]
  /\ UNCHANGED <<rnd, ovl, call, prompts, cfg, cfgErr, pc, stage, max_workers, clear_buffer,
                 buffer, nextIdx, output, printed, ret, exc, final, warnings>>

\* llm.get_completion raises: the future holds the exception.
ClientRaise(s, i) ==
  /\ i \in InFlight(s)
  /\ futures' = [futures EXCEPT ![<<s, i>>] =
        [@ EXCEPT !.st = "failed", !.cause = "client"]]
  /\ UNCHANGED <<rnd, ovl, call, prompts, cfg, cfgErr, pc, stage, max_workers, clear_buffer,
                 buffer, nextIdx, output, printed, ret, exc, final, warnings>>

\* One iteration of `for future in as_completed(futures)`: any finished future
\* not yet yielded; its result is appended, its exception printed with idx.
Collect(i) ==
  /\ pc = "stage"
  /\ nextIdx = NumChunks
  /\ i \in Submitted(stage)
  /\ Terminated(stage, i)
  /\ ~Task(stage, i).collected
  /\ futures' = [futures EXCEPT ![<<stage, i>>].collected = TRUE]
  /\ IF Task(stage, i).st = "done"
     THEN /\ output' = Append(output, <<i, Task(stage, i).res>>)
          /\ UNCHANGED printed
     ELSE /\ printed' = printed \cup {<<stage, i>>}
          /\ UNCHANGED output
  /\ UNCHANGED <<rnd, ovl, call, prompts, cfg, cfgErr, pc, stage, max_workers, clear_buffer,
                 buffer, nextIdx, ret, exc, final, warnings>>

\* The stage method returns its re-ordered list and agentic_translate stores it
\* in the buffer, then calls the next stage method or joins and returns.
StageReturn ==
  /\ pc = "stage"
  /\ nextIdx = NumChunks
  /\ PoolDrained(stage)
  /\ LET out == Reordered(output)
         d == DictPut(buffer.d, BufferKey(stage), out)
     IN /\ IF stage = "improve"
           THEN /\ ret' = [ret EXCEPT ![stage] = [st |-> "returned", out |-> out]]
                /\ final' = Join(out)
                /\ buffer' = IF clear_buffer THEN NoneBuffer ELSE DictBuffer(d)
                /\ pc' = "returned"
                /\ stage' = "none"
           ELSE /\ ret' = [ret EXCEPT ![stage] = [st |-> "returned", out |-> out],
                                      ![NextStage(stage)] = [st |-> "active", out |-> <<>>]]
                /\ buffer' = DictBuffer(d)
                /\ stage' = NextStage(stage)
                /\ UNCHANGED <<final, pc>>
  /\ nextIdx' = 0
  /\ output' = IF stage = "improve" THEN output ELSE <<>>
  /\ UNCHANGED <<rnd, ovl, call, prompts, cfg, cfgErr, max_workers, clear_buffer, futures,
                 printed, exc, warnings>>

\* The exception raised in the comprehension leaves the with-block once the
\* pool is joined, then the stage method and agentic_translate.
Unwind ==
  /\ pc = "unwind"
  /\ PoolJoined(stage)
  /\ ret' = [ret EXCEPT ![stage] = [st |-> "raised", out |-> <<>>]]
  /\ pc' = "raised"
  /\ stage' = "none"
  /\ UNCHANGED <<rnd, ovl, call, prompts, cfg, cfgErr, max_workers, clear_buffer, buffer,
                 nextIdx, futures, output, printed, exc, final, warnings>>

Next ==
  \/ ConstructConfig
  \/ \E mw \in 1..MaxWorkers : AgentInit(mw)
  \/ \E n \in 0..MaxUnits, cb \in BOOLEAN : AgenticTranslate(n, cb)
  \/ Submit
  \/ \E s \in Stages, i \in 0..(MaxUnits - 1) : WorkerStart(s, i)
  \/ \E s \in Stages, i \in 0..(MaxUnits - 1) : ClientReturn(s, i)
  \/ \E s \in Stages, i \in 0..(MaxUnits - 1) : ClientRaise(s, i)
  \/ \E i \in 0..(MaxUnits - 1) : Collect(i)
  \/ StageReturn
  \/ Unwind

Spec == Init /\ [][Next]_vars

\* The pool's idle threads take queued work, every call of the completion
\* client returns or raises, and the calling thread runs.
FairSpec ==
  /\ Spec
  /\ WF_vars(\E s \in Stages, i \in 0..(MaxUnits - 1) : WorkerStart(s, i))
  /\ WF_vars(\E s \in Stages, i \in 0..(MaxUnits - 1) :
               ClientReturn(s, i) \/ ClientRaise(s, i))
  /\ WF_vars(Submit \/ (\E i \in 0..(MaxUnits - 1) : Collect(i))
               \/ StageReturn \/ Unwind)

\* ------------------------------------------- rendering alone (prompts.py)
\* One call of get_formatted, get_formatted_prompt or get_formatted_sysmsg on a
\* template whose strings and bindings are drawn from small sets.
runVars ==
  <<prompts, cfg, cfgErr, pc, stage, max_workers, clear_buffer, nextIdx,
    futures, output, printed, ret, exc, final, warnings, call>>

agentVars == <<runVars, buffer>>

\* The pieces of the template strings: literal text and two fields.
RenderPieces == {Lit("a"), Ph("x"), Ph("y")}

RECURSIVE StringsOfLen(_)
StringsOfLen(n) ==
  IF n = 0 THEN {<<>>}
  ELSE {Append(str, piece) : str \in StringsOfLen(n - 1), piece \in RenderPieces}

RenderStrings == UNION {StringsOfLen(n) : n \in 0..MaxLen}

\* The keyword arguments of a call: a value for each of some names.
RenderKwargs == {[n \in names |-> <<"value", n>>] : names \in SUBSET {"x", "y", "z"}}

\* The record of a template under test: the arguments of its construction, the
\* template, the bindings of the call, and what the call and its repetition
\* returned.
Unrendered(at, prompt, sysmsg, placeholder_kwargs, t, kwargs) ==
  [pc |-> at, prompt |-> prompt, sysmsg |-> sysmsg,
   placeholder_kwargs |-> placeholder_kwargs, t |-> t, kwargs |-> kwargs,
   via |-> "none", out |-> [ok |-> FALSE, text |-> <<>>, missing |-> {}],
   out2 |-> [ok |-> FALSE, text |-> <<>>, missing |-> {}],
   warned |-> FALSE, overridden |-> {}]

InitRender ==
  /\ prompts = [t \in {"translation", "reflection", "improvement"} |->
                  PromptTemplate(TranslationBody, BaseSysmsg)]
  /\ NotStarted
  /\ ovl = [pc |-> "off"]
  /\ call = [pc |-> "off"]
  /\ \E prompt \in RenderStrings, sysmsg \in RenderStrings, kwargs \in RenderKwargs :
       rnd = Unrendered("ready", prompt, sysmsg, EmptyDict,
                        PromptTemplate(prompt, sysmsg), kwargs)

\* The method is called for the first time, or once more with the same bindings.
CanRender(via) == rnd.pc = "ready" \/ (rnd.pc = "done" /\ rnd.via = via)

\* The record after the call: the first call's result, warnings included, or the
\* repetition's result.
AfterRender(via, out, warned, overridden) ==
  IF rnd.pc = "ready"
  THEN [rnd EXCEPT !.pc = "done", !.via = via, !.out = out, !.warned = warned,
                   !.overridden = overridden]
  ELSE [rnd EXCEPT !.pc = "twice", !.out2 = out]

\* PromptTemplate.get_formatted(to_format, format_kwargs), called on its own.
GetFormatted ==
  /\ CanRender("get_formatted")
  /\ rnd' = AfterRender("get_formatted", get_formatted(rnd.t.prompt, rnd.kwargs),
                        placeholders_in_dict(rnd.t.prompt, rnd.kwargs) = "warn", {})
  /\ UNCHANGED <<agentVars, ovl>>

\* A get_formatted_prompt that keeps the bindings of the call as defaults.
GetFormattedPromptStoring ==
  /\ CanRender("get_formatted_prompt")
  /\ rnd' = [AfterRender("get_formatted_prompt",
                         get_formatted_prompt(rnd.t, rnd.kwargs), FALSE, {})
               EXCEPT !.t.prompt_kwargs = DictMerge(rnd.t.prompt_kwargs, rnd.kwargs)]
  /\ UNCHANGED <<agentVars, ovl>>

\* template.get_formatted_prompt(**kwargs): warns of the defaults the call
\* overrides, then renders with self.prompt_kwargs | kwargs.
GetFormattedPrompt ==
  /\ CanRender("get_formatted_prompt")
  /\ rnd' = AfterRender("get_formatted_prompt",
                        get_formatted_prompt(rnd.t, rnd.kwargs),
                        placeholders_in_dict(rnd.t.prompt,
                          DictMerge(rnd.t.prompt_kwargs, rnd.kwargs)) = "warn",
                        DOMAIN rnd.t.prompt_kwargs \cap DOMAIN rnd.kwargs)
  /\ UNCHANGED <<agentVars, ovl>>

\* template.get_formatted_sysmsg(**kwargs)
GetFormattedSysmsg ==
  /\ CanRender("get_formatted_sysmsg")
  /\ rnd' = AfterRender("get_formatted_sysmsg",
                        get_formatted_sysmsg(rnd.t, rnd.kwargs),
                        placeholders_in_dict(rnd.t.sysmsg,
                          DictMerge(rnd.t.sysmsg_kwargs, rnd.kwargs)) = "warn",
                        DOMAIN rnd.t.sysmsg_kwargs \cap DOMAIN rnd.kwargs)
  /\ UNCHANGED <<agentVars, ovl>>

NextRender == GetFormatted \/ GetFormattedPrompt \/ GetFormattedSysmsg

SpecRender == InitRender /\ [][NextRender]_vars

\* ----------------------------- a template with defaults (prompts.py)
\* PromptTemplate(prompt, sysmsg, placeholder_kwargs), then a rendering.
\* The keys of placeholder_kwargs tried, with the characters of each.
KeyChars(key) ==
  CASE key = "x" -> <<"x">>
    [] key = "xy" -> <<"x", "y">>
    [] OTHER -> <<"y", "z">>

PlaceholderKwargs ==
  {[key \in keys |-> <<"default", key>>] : keys \in SUBSET {"x", "xy", "yz"}}

\* {k: v for k, v in placeholder_kwargs if k in placeholders}: the loop runs
\* over the keys of the dict and unpacks each key into k, v.
FilteredKwargs(placeholder_kwargs, placeholders) ==
  LET firsts == {KeyChars(key)[1] : key \in DOMAIN placeholder_kwargs}
  IN [k \in firsts \cap SeqRange(placeholders) |->
        <<KeyChars(CHOOSE key \in DOMAIN placeholder_kwargs : KeyChars(key)[1] = k)[2]>>]

\* PromptTemplate.__init__: unpacking a key that has not two characters raises
\* ValueError.
PromptTemplateInit(prompt, sysmsg, placeholder_kwargs) ==
  IF \E key \in DOMAIN placeholder_kwargs : Len(KeyChars(key)) # 2
  THEN [ok |-> FALSE, t |-> PromptTemplate(prompt, sysmsg)]
  ELSE [ok |-> TRUE,
        t |-> [prompt |-> prompt, sysmsg |-> sysmsg,
               prompt_kwargs |->
                 FilteredKwargs(placeholder_kwargs, get_string_placeholders(prompt)),
               sysmsg_kwargs |->
                 FilteredKwargs(placeholder_kwargs, get_string_placeholders(sysmsg))]]

InitTemplate ==
  /\ prompts = [t \in {"translation", "reflection", "improvement"} |->
                  PromptTemplate(TranslationBody, BaseSysmsg)]
  /\ NotStarted
  /\ ovl = [pc |-> "off"]
  /\ call = [pc |-> "off"]
  /\ \E prompt \in RenderStrings, sysmsg \in StringsOfLen(1),
        placeholder_kwargs \in PlaceholderKwargs, kwargs \in RenderKwargs :
       rnd = Unrendered("new", prompt, sysmsg, placeholder_kwargs,
                        PromptTemplate(prompt, sysmsg), kwargs)

ConstructTemplate ==
  /\ rnd.pc = "new"
  /\ LET r == PromptTemplateInit(rnd.prompt, rnd.sysmsg, rnd.placeholder_kwargs)
     IN rnd' = [rnd EXCEPT !.pc = IF r.ok THEN "ready" ELSE "raised", !.t = r.t]
  /\ UNCHANGED <<agentVars, ovl>>

NextTemplate == ConstructTemplate \/ GetFormattedPrompt \/ GetFormattedSysmsg

SpecTemplate == InitTemplate /\ [][NextTemplate]_vars

\* ------------------------- two overlapping agentic_translate calls (agents.py)
\* Two threads call agentic_translate on one agent. Each call runs the
\* statements of agentic_translate and of the stage methods in order; the
\* statements of the two calls interleave, and both use self._buffer. Every
\* completion call returns, so a stage method's list holds one completion per
\* idx of its range, in idx order.
Callers == {"A", "B"}

\* What the splitter returns for caller k's document of n chunks.
CallerChunks(k, n) == [i \in 1..n |-> <<k, ToString(i - 1)>>]

\* The completion the client returns for a request of stage s: it is named
\* after the stage and the chunks the request was rendered from.
RequestCompletion(s, kw) ==
  <<s>> \o kw["source_chunk"]
       \o (IF "translated_chunk" \in DOMAIN kw THEN kw["translated_chunk"] ELSE <<>>)
       \o (IF "reflection_chunk" \in DOMAIN kw THEN kw["reflection_chunk"] ELSE <<>>)

\* The exception self._buffer[key][idx] raises, or "none".
SubscriptError(key, idx) ==
  IF buffer.none THEN "TypeError"
  ELSE IF key \notin DOMAIN buffer.d THEN "KeyError"
  ELSE IF idx >= Len(buffer.d[key]) THEN "IndexError"
  ELSE "none"

\* The exception evaluating a stage's prompt_kwargs for idx raises on whatever
\* self._buffer holds at that moment, or "none".
SharedBindingError(s, idx) ==
  IF s \in {"reflect", "improve"} /\ SubscriptError("translated_chunks", idx) # "none"
  THEN SubscriptError("translated_chunks", idx)
  ELSE IF s = "improve" /\ SubscriptError("reflection_chunks", idx) # "none"
  THEN SubscriptError("reflection_chunks", idx)
  ELSE IF BufferFalsy \/ "source_chunks" \notin DOMAIN buffer.d THEN "ValueError"
  ELSE IF idx >= Len(buffer.d["source_chunks"]) THEN "IndexError"
  ELSE "none"

Raised(k, e) == ovl' = [ovl EXCEPT ![k].pc = "raised", ![k].exc = e]

InitOverlap ==
  /\ prompts = [t \in {"translation", "reflection", "improvement"} |->
                  PromptTemplate(TranslationBody, BaseSysmsg)]
  /\ NotStarted
  /\ rnd = [pc |-> "off"]
  /\ call = [pc |-> "off"]
  /\ \E na \in 1..MaxUnits, nb \in 1..MaxUnits, ca \in BOOLEAN, cb \in BOOLEAN :
       ovl = [k \in Callers |->
                [pc |-> "idle", units |-> IF k = "A" THEN na ELSE nb,
                 clear_buffer |-> IF k = "A" THEN ca ELSE cb,
                 stage |-> "none", n |-> 0, idx |-> 0, output |-> <<>>,
                 final |-> <<>>, exc |-> "none",
                 found |-> EmptyDict, warned |-> FALSE, failed |-> FALSE]]

\* An agentic_translate that warns of a buffer that is not empty and keeps it.
CallResetKeepsBuffer(k) ==
  /\ ovl[k].pc = "idle"
  /\ buffer' = IF BufferFalsy THEN DictBuffer(EmptyDict) ELSE buffer
  /\ ovl' = [ovl EXCEPT ![k].pc = "split", ![k].found = BufferProperty,
                          ![k].warned = ~BufferFalsy]
  /\ UNCHANGED <<runVars, rnd>>

\* if self._buffer: warn(...); self._buffer = {}
\* found keeps what the buffer property held when the call began.
CallReset(k) ==
  /\ ovl[k].pc = "idle"
  /\ buffer' = DictBuffer(EmptyDict)
  /\ ovl' = [ovl EXCEPT ![k].pc = "split", ![k].found = BufferProperty,
                          ![k].warned = ~BufferFalsy]
  /\ UNCHANGED <<runVars, rnd>>

\* self._buffer["source_chunks"] = self.text_splitter.split_text(source_text)
CallSplit(k) ==
  /\ ovl[k].pc = "split"
  /\ IF buffer.none
     THEN Raised(k, "TypeError") /\ UNCHANGED buffer
     ELSE /\ buffer' = DictBuffer(DictPut(buffer.d, "source_chunks",
                                          CallerChunks(k, ovl[k].units)))
          /\ ovl' = [ovl EXCEPT ![k].pc = "count"]
  /\ UNCHANGED <<runVars, rnd>>

\* self._buffer["num_chunks"] = len(self._buffer["source_chunks"])
CallCount(k) ==
  /\ ovl[k].pc = "count"
  /\ IF buffer.none
     THEN Raised(k, "TypeError") /\ UNCHANGED buffer
     ELSE IF "source_chunks" \notin DOMAIN buffer.d
     THEN Raised(k, "KeyError") /\ UNCHANGED buffer
     ELSE /\ buffer' = DictBuffer(DictPut(buffer.d, "num_chunks",
                                          Len(buffer.d["source_chunks"])))
          /\ ovl' = [ovl EXCEPT ![k].pc = "enter", ![k].stage = "translate"]
  /\ UNCHANGED <<runVars, rnd>>

\* A stage method starts: range(self._buffer["num_chunks"]) is evaluated once.
StageEnter(k) ==
  /\ ovl[k].pc = "enter"
  /\ IF buffer.none THEN Raised(k, "TypeError")
     ELSE IF "num_chunks" \notin DOMAIN buffer.d THEN Raised(k, "KeyError")
     ELSE ovl' = [ovl EXCEPT ![k].pc = "bind", ![k].n = buffer.d["num_chunks"],
                             ![k].idx = 0, ![k].output = <<>>]
  /\ UNCHANGED <<runVars, rnd, buffer>>

\* One round of the comprehension: the bindings of idx are read from
\* self._buffer and the unit is submitted; its completion comes back.
StageBind(k) ==
  /\ ovl[k].pc = "bind"
  /\ ovl[k].idx < ovl[k].n
  /\ LET e == SharedBindingError(ovl[k].stage, ovl[k].idx)
     IN IF e # "none" THEN Raised(k, e)
        ELSE ovl' = [ovl EXCEPT
               ![k].output = Append(@, RequestCompletion(ovl[k].stage,
                                         PromptKwargs(ovl[k].stage, ovl[k].idx))),
               ![k].idx = @ + 1]
  /\ UNCHANGED <<runVars, rnd, buffer>>

\* The stage method returns and agentic_translate stores its list; after
\* improve it joins the list it was returned.
StageStore(k) ==
  /\ ovl[k].pc = "bind"
  /\ ovl[k].idx = ovl[k].n
  /\ IF buffer.none
     THEN Raised(k, "TypeError") /\ UNCHANGED buffer
     ELSE /\ buffer' = DictBuffer(DictPut(buffer.d, BufferKey(ovl[k].stage),
                                          ovl[k].output))
          /\ IF ovl[k].stage = "improve"
             THEN ovl' = [ovl EXCEPT ![k].pc = "clear", ![k].final = Join(ovl[k].output)]
             ELSE ovl' = [ovl EXCEPT ![k].pc = "enter",
                                     ![k].stage = NextStage(ovl[k].stage)]
  /\ UNCHANGED <<runVars, rnd>>

\* if clear_buffer: self._buffer = None; return final
CallClear(k) ==
  /\ ovl[k].pc = "clear"
  /\ buffer' = IF ovl[k].clear_buffer THEN NoneBuffer ELSE buffer
  /\ ovl' = [ovl EXCEPT ![k].pc = "returned"]
  /\ UNCHANGED <<runVars, rnd>>

NextOverlap ==
  \E k \in Callers :
    \/ CallReset(k)
    \/ CallSplit(k)
    \/ CallCount(k)
    \/ StageEnter(k)
    \/ StageBind(k)
    \/ StageStore(k)
    \/ CallClear(k)

SpecOverlap == InitOverlap /\ [][NextOverlap]_vars

\* ------------------------------ one call after the other (agents.py)
\* The two calls do not overlap: the second agentic_translate begins when the
\* first has returned or raised. Here a completion call may raise: the unit is
\* submitted, its exception is printed and its completion is missing from the
\* stage method's list.
UnitFails(k) ==
  /\ ovl[k].pc = "bind"
  /\ ovl[k].idx < ovl[k].n
  /\ SharedBindingError(ovl[k].stage, ovl[k].idx) = "none"
  /\ ovl' = [ovl EXCEPT ![k].idx = @ + 1, ![k].failed = TRUE]
  /\ UNCHANGED <<runVars, rnd, buffer>>

NoOtherRunning(k) ==
  \A j \in Callers \ {k} : ovl[j].pc \in {"idle", "returned", "raised"}

NextRerun ==
  \E k \in Callers :
    /\ NoOtherRunning(k)
    /\ \/ CallReset(k)
       \/ CallSplit(k)
       \/ CallCount(k)
       \/ StageEnter(k)
       \/ StageBind(k)
       \/ UnitFails(k)
       \/ StageStore(k)
       \/ CallClear(k)

SpecRerun == InitOverlap /\ [][NextRerun]_vars

\* ------------------------------- single calls (splitters.py, agents.py)
\* One call of a splitter's split_text, of calculate_chunk_size, or of
\* get_tagged_source_text, on arguments drawn from small sets. A text is a
\* sequence of characters.
Chars == {"a", "\n", "."}

RECURSIVE TextsOfLen(_)
TextsOfLen(n) ==
  IF n = 0 THEN {<<>>}
  ELSE {Append(text, c) : text \in TextsOfLen(n - 1), c \in Chars}

Texts == UNION {TextsOfLen(n) : n \in 0..MaxText}

\* [text[i : i + chunk_size] for i in range(0, len(text), chunk_size)], from
\* offset i on.
RECURSIVE UniformChunks(_, _, _)
UniformChunks(text, i, chunk_size) ==
  IF i >= Len(text) THEN <<>>
  ELSE <<Slice(text, i, i + chunk_size)>> \o UniformChunks(text, i + chunk_size, chunk_size)

\* UniformTextSplitter(num_chunks).split_text(text): range() raises ValueError
\* on a step of zero.
UniformTextSplitter(num_chunks, text) ==
  LET chunk_size == Len(text) \div num_chunks
  IN IF chunk_size = 0
     THEN [ok |-> FALSE, exc |-> "ValueError", chunks |-> <<>>]
     ELSE [ok |-> TRUE, exc |-> "none", chunks |-> UniformChunks(text, 0, chunk_size)]

\* text.split(sep) for a separator of one character.
RECURSIVE StrSplit(_, _)
StrSplit(text, sep) ==
  IF \A k \in DOMAIN text : text[k] # sep THEN <<text>>
  ELSE LET k == CHOOSE k \in DOMAIN text :
                  text[k] = sep /\ \A j \in 1..(k - 1) : text[j] # sep
       IN <<SubSeq(text, 1, k - 1)>> \o StrSplit(SubSeq(text, k + 1, Len(text)), sep)

NewLineSplitter(text) == [ok |-> TRUE, exc |-> "none", chunks |-> StrSplit(text, "\n")]

SentenceSplitter(text) == [ok |-> TRUE, exc |-> "none", chunks |-> StrSplit(text, ".")]

\* TikTokenMaxTokenSplitter.calculate_chunk_size
calculate_chunk_size(token_count, token_limit) ==
  IF token_count <= token_limit THEN token_count
  ELSE LET num_chunks == (token_count + token_limit - 1) \div token_limit
           chunk_size == token_count \div num_chunks
           remaining_tokens == token_count % token_limit
       IN IF remaining_tokens > 0
          THEN chunk_size + (remaining_tokens \div num_chunks)
          ELSE chunk_size

\* The buffers get_tagged_source_text is called on: None, {}, and the buffer
\* of a run of n chunks.
TaggedBuffers ==
  {NoneBuffer, DictBuffer(EmptyDict)}
    \cup {DictBuffer([source_chunks |-> SourceChunks(n), num_chunks |-> n]) :
            n \in 1..MaxUnits}

Ready(op, args) == [pc |-> "ready", op |-> op, args |-> args]

InitCall ==
  /\ prompts = [t \in {"translation", "reflection", "improvement"} |->
                  PromptTemplate(TranslationBody, BaseSysmsg)]
  /\ cfg = "unbuilt"
  /\ cfgErr = <<>>
  /\ pc = "new"
  /\ stage = "none"
  /\ max_workers = 0
  /\ clear_buffer = TRUE
  /\ nextIdx = 0
  /\ futures = EmptyDict
  /\ output = <<>>
  /\ printed = {}
  /\ ret = [s \in Stages |-> NotCalled]
  /\ exc = "none"
  /\ final = <<>>
  /\ warnings = {}
  /\ rnd = [pc |-> "off"]
  /\ ovl = [pc |-> "off"]
  /\ \/ /\ buffer = NoneBuffer
        /\ \/ \E text \in Texts, num_chunks \in 1..MaxChunks :
                call = Ready("split_text", [text |-> text, num_chunks |-> num_chunks])
           \/ \E token_count \in 1..MaxTokens, token_limit \in 1..MaxTokens :
                call = Ready("calculate_chunk_size",
                             [token_count |-> token_count, token_limit |-> token_limit])
     \/ /\ buffer \in TaggedBuffers
        /\ \E chunk_idx \in 0..(MaxUnits - 1) :
             /\ (~BufferFalsy => chunk_idx < NumChunks)
             /\ call = Ready("get_tagged_source_text", [chunk_idx |-> chunk_idx])

Returned(splitter, out) ==
  /\ call' = [pc |-> "done", op |-> call.op, args |-> call.args,
              splitter |-> splitter, out |-> out]
  /\ UNCHANGED <<prompts, cfg, cfgErr, pc, stage, max_workers, clear_buffer, nextIdx,
                 futures, output, printed, ret, exc, final, warnings, rnd, ovl, buffer>>

UniformSplitText ==
  /\ call.pc = "ready" /\ call.op = "split_text"
  /\ Returned("UniformTextSplitter",
              UniformTextSplitter(call.args.num_chunks, call.args.text))

NewLineSplitText ==
  /\ call.pc = "ready" /\ call.op = "split_text"
  /\ Returned("NewLineSplitter", NewLineSplitter(call.args.text))

SentenceSplitText ==
  /\ call.pc = "ready" /\ call.op = "split_text"
  /\ Returned("SentenceSplitter", SentenceSplitter(call.args.text))

CalculateChunkSize ==
  /\ call.pc = "ready" /\ call.op = "calculate_chunk_size"
  /\ Returned("TikTokenMaxTokenSplitter",
              calculate_chunk_size(call.args.token_count, call.args.token_limit))

GetTaggedSourceText ==
  /\ call.pc = "ready" /\ call.op = "get_tagged_source_text"
  /\ Returned("none", get_tagged_source_text(call.args.chunk_idx))

NextCall ==
  \/ UniformSplitText
  \/ NewLineSplitText
  \/ SentenceSplitText
  \/ CalculateChunkSize
  \/ GetTaggedSourceText

SpecCall == InitCall /\ [][NextCall]_vars

\* ------------------------------------------------------------- properties
\* The number of units of the run: translate() submits every idx of
\* range(num_chunks), and the buffer may be gone when the run has returned.
RunUnits == Cardinality(Submitted("translate"))

Done(s, i) == <<s, i>> \in DOMAIN futures /\ Task(s, i).st = "done"

\* A failure at the completion client (llm.get_completion raised).
ClientFailed(s, i) ==
  <<s, i>> \in DOMAIN futures /\ Task(s, i).st = "failed" /\ Task(s, i).cause = "client"

\* The completions of the units of stage s that succeeded, by increasing idx < k.
RECURSIVE InIndexOrder(_, _)
InIndexOrder(s, k) ==
  IF k = 0 THEN <<>>
  ELSE InIndexOrder(s, k - 1)
         \o (IF Done(s, k - 1) THEN <<Task(s, k - 1).res>> ELSE <<>>)

\* C1: whatever the order in which the units' calls finish, a stage method
\* returns the completions of its successful units by increasing unit index;
\* when every unit succeeded the list has one entry per unit and entry i is the
\* completion returned for unit i.
C1_OrderedByIndex ==
  \A s \in Stages :
    ret[s].st = "returned" =>
      /\ ret[s].out = InIndexOrder(s, MaxUnits + 1)
      /\ Submitted(s) \subseteq 0..(RunUnits - 1)
      /\ (\A i \in 0..(RunUnits - 1) : Done(s, i)) =>
           /\ Len(ret[s].out) = RunUnits
           /\ \A i \in 0..(RunUnits - 1) : ret[s].out[i + 1] = Task(s, i).res

\* A run whose last stage collected unit 1 before unit 0 and returned all units.
C1_Witness ==
  /\ pc = "returned"
  /\ RunUnits >= 2
  /\ Len(output) = RunUnits
  /\ output[1][1] > output[2][1]
  /\ Len(ret["improve"].out) = RunUnits

\* C2: if exactly one unit of a stage fails at the completion client, the stage
\* method returns (does not raise) the completions of the other N-1 units in
\* index order, every other unit having been dispatched and completed, and the
\* failed index is reported.
C2_PartialFailureIsolation ==
  \A s \in Stages :
    (/\ ret[s].st \in {"returned", "raised"}
     /\ Cardinality({i \in Submitted(s) : ClientFailed(s, i)}) = 1) =>
      /\ ret[s].st = "returned"
      /\ \A i \in 0..(RunUnits - 1) : Done(s, i) \/ ClientFailed(s, i)
      /\ Len(ret[s].out) = RunUnits - 1
      /\ ret[s].out = InIndexOrder(s, MaxUnits + 1)
      /\ \A i \in Submitted(s) : ClientFailed(s, i) => <<s, i>> \in printed

\* C3: every reflect request submitted for unit i is bound to the completion
\* translate obtained for unit i, and every improve request for unit i to unit
\* i's own translate and reflect completions.
C3_BoundToOwnUnit ==
  \A i \in 0..MaxUnits :
    /\ <<"reflect", i>> \in DOMAIN futures =>
         /\ Done("translate", i)
         /\ Task("reflect", i).kw["translated_chunk"] = Task("translate", i).res
    /\ <<"improve", i>> \in DOMAIN futures =>
         /\ Done("translate", i) /\ Done("reflect", i)
         /\ Task("improve", i).kw["translated_chunk"] = Task("translate", i).res
         /\ Task("improve", i).kw["reflection_chunk"] = Task("reflect", i).res

\* No unit of the run failed while its request was rendered.
AllRendered ==
  \A s \in Stages, i \in 0..MaxUnits :
    <<s, i>> \in DOMAIN futures => Task(s, i).cause # "render"

\* C4: when translate or reflect returned fewer outputs than there are units,
\* the next stage method is not called and none of its units is submitted
\* (stated for the runs in which every request rendered).
C4_FailFastOnPartialStage ==
  \A s \in {"translate", "reflect"} :
    (AllRendered /\ ret[s].st = "returned" /\ Len(ret[s].out) < RunUnits) =>
      /\ ret[NextStage(s)].st = "notcalled"
      /\ Submitted(NextStage(s)) = {}

\* C5: a document returned by agentic_translate holds the improve completion
\* of every unit 0..N-1 (stated for the runs in which every request rendered).
C5_ReturnedDocumentComplete ==
  (pc = "returned" /\ AllRendered) =>
    /\ \A i \in 0..(RunUnits - 1) : Done("improve", i)
    /\ final = Join([k \in 1..RunUnits |-> Task("improve", k - 1).res])

\* A call of the completion client was made for unit i of stage s.
CallStarted(s, i) ==
  /\ <<s, i>> \in DOMAIN futures
  /\ \/ Task(s, i).st \in {"calling", "done"}
     \/ ClientFailed(s, i)

AllTerminated(s) ==
  /\ Submitted(s) = 0..(RunUnits - 1)
  /\ \A i \in Submitted(s) : Terminated(s, i)

\* C6: a completion call of reflect is made only when every translate unit has
\* terminated, and one of improve only when every reflect unit has terminated.
C6_StrictStageSequencing ==
  \A i \in 0..MaxUnits :
    /\ CallStarted("reflect", i) => AllTerminated("translate")
    /\ CallStarted("improve", i) => AllTerminated("reflect")

\* An improve call in flight after a reflect stage of which unit 1 failed.
C6_Witness ==
  /\ <<"improve", 0>> \in DOMAIN futures
  /\ Task("improve", 0).st = "calling"
  /\ Done("reflect", 0)
  /\ ClientFailed("reflect", 1)

\* C7: a run of at least one unit in which some stage ended with zero
\* successful units does not return a string (stated for the runs in which
\* every request rendered).
C7_EmptyStageNeverReturns ==
  (/\ RunUnits >= 1
   /\ AllRendered
   /\ \E s \in Stages : ret[s].st = "returned" /\ ret[s].out = <<>>)
    => pc # "returned"

\* The placeholders each prompt type must contain.
C8_Required ==
  [translation |-> {"source_lang", "target_lang", "source_chunk"},
   reflection |-> {"source_lang", "target_lang", "source_chunk", "translated_chunk"},
   improvement |-> {"source_lang", "target_lang", "source_chunk", "translated_chunk",
                    "reflection_chunk"}]

C8_Lacking ==
  {<<t, n>> \in {"translation", "reflection", "improvement"}
               \X {"source_lang", "target_lang", "source_chunk",
                   "translated_chunk", "reflection_chunk"} :
     /\ n \in C8_Required[t]
     /\ n \notin SeqRange(get_string_placeholders(prompts[t].prompt))}

\* C8: when a prompt lacks a placeholder its role requires, constructing the
\* PromptConfig raises (naming a lacking placeholder), no agent is built and no
\* unit is ever submitted.
C8_ContractCheckedAtConstruction ==
  C8_Lacking # {} =>
    /\ cfg # "ok"
    /\ pc \in {"new", "configured"}
    /\ pc = "configured" => (cfg = "error" /\ cfgErr \in C8_Lacking)
    /\ DOMAIN futures = {}

\* A reflection prompt without translated_chunk was refused.
C8_Witness ==
  /\ cfg = "error"
  /\ cfgErr = <<"reflection", "translated_chunk">>
  /\ C8_Lacking = {cfgErr}

\* C9: with a PromptConfig that constructed, no unit fails while its prompt or
\* system message is rendered.
C9_NoRenderFailureAfterConstruction ==
  cfg = "ok" =>
    \A s \in Stages, i \in 0..MaxUnits :
      <<s, i>> \in DOMAIN futures => Task(s, i).cause # "render"

\* C10: no stage method raises: a failure building one unit's bindings,
\* rendering its request or calling the client fails that unit only (stated
\* for the runs in which every request rendered).
C10_StageMethodNeverRaises ==
  AllRendered => \A s \in Stages : ret[s].st # "raised"

\* The improve completions of the units idx < k that succeeded, one after the
\* other.
RECURSIVE C11_Concatenation(_)
C11_Concatenation(k) ==
  IF k = 0 THEN <<>>
  ELSE C11_Concatenation(k - 1)
         \o (IF Done("improve", k - 1) THEN Task("improve", k - 1).res ELSE <<>>)

\* C11: the document agentic_translate returns is the concatenation of the
\* improve stage's per-unit outputs by increasing unit index, nothing added
\* between them and nothing reordered.
C11_Reassembly ==
  pc = "returned" =>
    /\ final = C11_Concatenation(MaxUnits + 1)
    /\ (\A i \in 0..(RunUnits - 1) : Done("improve", i)) =>
         /\ Len(final) = 2 * RunUnits
         /\ \A i \in 0..(RunUnits - 1) :
              <<final[2 * i + 1], final[2 * i + 2]>> = Task("improve", i).res

\* A document of two or more units whose improve calls were collected with
\* unit 1 ahead of unit 0.
C11_Witness ==
  /\ pc = "returned"
  /\ RunUnits >= 2
  /\ \A i \in 0..(RunUnits - 1) : Done("improve", i)
  /\ output[1][1] = 1
  /\ Len(final) = 2 * RunUnits

\* C12: a stage output stored in the buffer holds one entry per unit index
\* 0..N-1, entry i being unit i's completion, unless every unit of the stage
\* failed (stated for the runs in which every request rendered).
C12_StoredStageOutputComplete ==
  (AllRendered /\ ~buffer.none) =>
    \A s \in Stages :
      BufferKey(s) \in DOMAIN buffer.d =>
        \/ /\ Len(buffer.d[BufferKey(s)]) = buffer.d["num_chunks"]
           /\ \A i \in 0..(buffer.d["num_chunks"] - 1) :
                /\ Done(s, i)
                /\ buffer.d[BufferKey(s)][i + 1] = Task(s, i).res
        \/ \A i \in Submitted(s) : ~Done(s, i)

\* C13: the calls of a stage in flight never exceed max_workers, and whenever
\* units wait in the pool's queue a time comes when all of them have been
\* started.
C13_BoundedAdmission ==
  /\ [](\A s \in Stages : Cardinality(InFlight(s)) <= max_workers)
  /\ (\E s \in Stages : Queued(s) # {}) ~> (\A s \in Stages : Queued(s) = {})

\* Every thread of the pool is busy with a unit admitted after another one
\* finished, and a unit still waits.
C13_Witness ==
  \E s \in Stages :
    /\ Cardinality(InFlight(s)) = max_workers
    /\ Queued(s) # {}
    /\ \E i \in Submitted(s) : Terminated(s, i)

\* The keys agentic_translate stores in the buffer.
C15_DataKeys ==
  {"source_chunks", "num_chunks", "translated_chunks", "reflection_chunks",
   "improved_chunks"}

\* C15: after a run in which a unit failed at the completion client, a buffer
\* that is retained holds, besides the stages' outputs, a record of the failed
\* unit indices.
C15_FailedIndicesRecorded ==
  (/\ pc \in {"returned", "raised"}
   /\ ~buffer.none
   /\ \E s \in Stages, i \in 0..(MaxUnits - 1) : ClientFailed(s, i))
    => DOMAIN buffer.d \ C15_DataKeys # {}

\* The calls of the completion client made in the run.
C18_Calls == Cardinality({k \in DOMAIN futures : futures[k].calls >= 1})

\* C18: the completion client is called at most once per unit per stage, a
\* unit that failed stays failed, and a run makes at most 3N calls, 3N when
\* every unit of every stage succeeded.
C18_NoRetry ==
  /\ \A k \in DOMAIN futures : futures[k].calls <= 1
  /\ \A k \in DOMAIN futures :
       (futures[k].st = "failed" /\ futures[k].cause = "client") => futures[k].calls = 1
  /\ C18_Calls <= 3 * RunUnits
  /\ (pc = "returned" /\ \A s \in Stages, i \in 0..(RunUnits - 1) : Done(s, i))
       => C18_Calls = 3 * RunUnits

\* A run of two or more units that made its 3N calls, and a run in which a
\* call failed and the stage went on to return.
C18_Witness ==
  \/ /\ pc = "returned"
     /\ RunUnits >= 2
     /\ C18_Calls = 3 * RunUnits
  \/ /\ ClientFailed("translate", 0)
     /\ ret["translate"].st = "returned"
     /\ C18_Calls = RunUnits

\* C19: the buffer changes only in agentic_translate: when a run starts, and
\* when a stage method has returned, every unit it submitted having terminated;
\* what is stored then is the returned list under the stage's key.
C19_OnlyOrchestratorWrites ==
  [][buffer' # buffer =>
       \/ pc = "idle"
       \/ /\ pc = "stage"
          /\ nextIdx = NumChunks
          /\ \A i \in Submitted(stage) : Terminated(stage, i)
          /\ ret'[stage].st = "returned"
          /\ \/ buffer' = NoneBuffer
             \/ buffer' = DictBuffer(DictPut(buffer.d, BufferKey(stage), ret'[stage].out))]_vars

\* A reflect stage in progress: unit 0 has its completion and the buffer holds
\* the translate output only.
C19_Witness ==
  /\ pc = "stage"
  /\ stage = "reflect"
  /\ Done("reflect", 0)
  /\ ~buffer.none
  /\ "translated_chunks" \in DOMAIN buffer.d
  /\ "reflection_chunks" \notin DOMAIN buffer.d

\* C20: when a stage method has returned or raised, every unit it submitted
\* has terminated, and only the stage in progress has units queued or in
\* flight.
C20_PoolScopedToCall ==
  \A s \in Stages :
    /\ ret[s].st \in {"returned", "raised"} =>
         \A i \in Submitted(s) : Terminated(s, i)
    /\ (InFlight(s) \cup Queued(s)) # {} => (s = stage /\ ret[s].st = "active")

\* reflect raised after it had submitted unit 0, whose call completed.
C20_Witness ==
  /\ ret["reflect"].st = "raised"
  /\ Done("reflect", 0)
  /\ AllRendered

\* The string the call of SpecRender rendered.
RenderedString ==
  IF rnd.via = "get_formatted_sysmsg" THEN rnd.t.sysmsg ELSE rnd.t.prompt

\* The placeholders of that string.
RenderedNames ==
  {RenderedString[k].v : k \in {j \in DOMAIN RenderedString : RenderedString[j].ph}}

\* Its first k pieces, each field replaced by the value bound to its name.
RECURSIVE Substituted(_)
Substituted(k) ==
  IF k = 0 THEN <<>>
  ELSE Substituted(k - 1)
         \o (IF RenderedString[k].ph THEN rnd.kwargs[RenderedString[k].v]
             ELSE <<RenderedString[k].v>>)

\* C16: a rendering whose bindings lack a placeholder of the string raises,
\* naming every placeholder that is missing, and yields no string; any other
\* rendering yields the string with each placeholder replaced by its value.
C16_RenderAllOrNothing ==
  rnd.pc = "done" =>
    IF RenderedNames \subseteq DOMAIN rnd.kwargs
    THEN /\ rnd.out.ok
         /\ rnd.out.text = Substituted(Len(RenderedString))
    ELSE /\ ~rnd.out.ok
         /\ rnd.out.text = <<>>
         /\ rnd.out.missing = RenderedNames \ DOMAIN rnd.kwargs

\* A string of two placeholders rendered with neither bound.
C16_Witness ==
  /\ rnd.pc = "done"
  /\ ~rnd.out.ok
  /\ rnd.out.missing = {"x", "y"}

\* C17: a rendering whose bindings cover the string's placeholders and hold
\* other names too warns and yields the fully substituted string.
C17_ExtraBindingsWarnOnly ==
  (/\ rnd.pc = "done"
   /\ RenderedNames \subseteq DOMAIN rnd.kwargs
   /\ DOMAIN rnd.kwargs \ RenderedNames # {})
    => /\ rnd.out.ok
       /\ rnd.warned
       /\ rnd.out.text = Substituted(Len(RenderedString))

\* A string with placeholder x rendered by get_formatted_prompt with x and z
\* bound.
C17_Witness ==
  /\ rnd.pc = "done"
  /\ rnd.via = "get_formatted_prompt"
  /\ RenderedNames = {"x"}
  /\ DOMAIN rnd.kwargs = {"x", "z"}
  /\ rnd.warned
  /\ rnd.out.ok

\* The callers whose chunks a text was made from.
Owners(text) == {text[i] : i \in DOMAIN text} \cap Callers

\* C14: with two calls of agentic_translate overlapping on one agent, every
\* request of a call is bound to that call's own chunks and earlier outputs,
\* and the document a call returns is made from its own chunks only.
C14_NoSharedRunState ==
  \A k \in Callers :
    /\ \A j \in DOMAIN ovl[k].output : Owners(ovl[k].output[j]) \subseteq {k}
    /\ ovl[k].pc = "returned" =>
         /\ Owners(ovl[k].final) = {k}
         /\ Len(ovl[k].output) = ovl[k].units

C25_DispatchInIndexOrder ==
  \A s \in Stages, i \in 0..(MaxUnits - 1), j \in 0..(MaxUnits - 1) :
    (i < j /\ j \in Submitted(s)) =>
      /\ i \in Submitted(s)
      /\ Task(s, j).st # "queued" => Task(s, i).st # "queued"

\* Unit 1 of translate has finished while unit 0, started before it, is still
\* in flight.
C25_Witness ==
  /\ Done("translate", 1)
  /\ 0 \in InFlight("translate")

SplitDone == call.pc = "done" /\ call.op = "split_text"

\* C23: on a text that is not empty each of the three splitters returns a list
\* of at least one chunk and does not raise, whatever num_chunks >= 1.
C23_SplittersReturnAChunk ==
  (SplitDone /\ call.args.text # <<>>) =>
    /\ call.out.ok
    /\ Len(call.out.chunks) >= 1

\* Pieces of the tag pair around a chunk.
TagPieces == {"<", ">", "</", source_text_tag}

NotTagPiece(x) == x \notin TagPieces

\* C27: on a populated buffer get_tagged_source_text(i), 0 <= i < N, returns
\* chunk i as source_chunk and as source_tagged all chunks in order with chunk i
\* alone between <tag> and </tag>, so that without the tag pair it is the
\* source; on a buffer that is None or empty it raises ValueError; the buffer is
\* not changed.
C27_TaggedSourceText ==
  /\ [](call.pc = "done" /\ call.op = "get_tagged_source_text" =>
         IF BufferFalsy THEN ~call.out.ok
         ELSE LET chnks == buffer.d["source_chunks"]
                  i == call.args.chunk_idx
              IN /\ call.out.ok
                 /\ call.out.kw["source_chunk"] = chnks[i + 1]
                 /\ call.out.kw["source_tagged"] =
                      Join(SubSeq(chnks, 1, i))
                        \o <<"<", source_text_tag, ">">> \o chnks[i + 1]
                        \o <<"</", source_text_tag, ">">>
                        \o Join(SubSeq(chnks, i + 2, Len(chnks)))
                 /\ SelectSeq(call.out.kw["source_tagged"], NotTagPiece) = Join(chnks))
  /\ [][call.op = "get_tagged_source_text" => buffer' = buffer]_vars

\* The middle chunk of three was tagged.
C27_Witness ==
  /\ call.pc = "done"
  /\ call.op = "get_tagged_source_text"
  /\ call.args.chunk_idx = 1
  /\ call.out.ok
  /\ Len(buffer.d["source_chunks"]) = 3

\* C29: calculate_chunk_size returns token_count when it is within the limit,
\* else a size of at least 1 and at most token_limit.
C29_ChunkSizeWithinLimit ==
  (call.pc = "done" /\ call.op = "calculate_chunk_size") =>
    IF call.args.token_count <= call.args.token_limit
    THEN call.out = call.args.token_count
    ELSE call.out >= 1 /\ call.out <= call.args.token_limit

\* C30: UniformTextSplitter(num_chunks) returns, for a text of at least
\* num_chunks characters, num_chunks chunks whose concatenation is the text.
C30_UniformSplitsIntoNumChunks ==
  (/\ SplitDone
   /\ call.splitter = "UniformTextSplitter"
   /\ Len(call.args.text) >= call.args.num_chunks)
    => /\ call.out.ok
       /\ Len(call.out.chunks) = call.args.num_chunks
       /\ Join(call.out.chunks) = call.args.text

Restricted(d, str) ==
  [k \in DOMAIN d \cap SeqRange(get_string_placeholders(str)) |-> d[k]]

\* C28: a PromptTemplate built with placeholder_kwargs is built, and keeps as
\* defaults of the prompt (of the sysmsg) the entries whose key is a
\* placeholder of the prompt (of the sysmsg); a rendering uses the defaults
\* with the bindings of the call laid over them and warns of every default the
\* call overrides.
C28_DefaultsStoredAndMerged ==
  rnd.pc \in {"ready", "raised", "done", "twice"} =>
    /\ rnd.pc # "raised"
    /\ rnd.t.prompt_kwargs = Restricted(rnd.placeholder_kwargs, rnd.prompt)
    /\ rnd.t.sysmsg_kwargs = Restricted(rnd.placeholder_kwargs, rnd.sysmsg)
    /\ rnd.pc \in {"done", "twice"} =>
         LET defaults == IF rnd.via = "get_formatted_sysmsg"
                         THEN Restricted(rnd.placeholder_kwargs, rnd.sysmsg)
                         ELSE Restricted(rnd.placeholder_kwargs, rnd.prompt)
             bound == [k \in DOMAIN defaults \cup DOMAIN rnd.kwargs |->
                         IF k \in DOMAIN rnd.kwargs THEN rnd.kwargs[k] ELSE defaults[k]]
         IN /\ rnd.overridden = DOMAIN defaults \cap DOMAIN rnd.kwargs
            /\ rnd.out.ok <=> RenderedNames \subseteq DOMAIN bound
            /\ rnd.out.ok =>
                 rnd.out.text = Format(RenderedString, bound)

\* Every chunk and stage output the buffer holds comes from caller k's text,
\* and the count is that of k's chunks.
BufferOwnedBy(k) ==
  \A key \in DOMAIN BufferProperty :
    IF key = "num_chunks" THEN BufferProperty[key] = ovl[k].units
    ELSE \A j \in DOMAIN BufferProperty[key] : Owners(BufferProperty[key][j]) \subseteq {k}

\* C22: a call of agentic_translate that finds data of an earlier run in the
\* buffer warns, raises only if a unit of its own failed, and works on its own
\* data: the buffer, the requests it binds and the document it returns hold
\* nothing of the earlier run.
C22_RerunOnFreshState ==
  \A k \in Callers :
    ovl[k].found # EmptyDict =>
      /\ ovl[k].warned
      /\ ovl[k].pc = "raised" => ovl[k].failed
      /\ BufferOwnedBy(k)
      /\ ovl[k].pc = "bind" => ovl[k].n = ovl[k].units
      /\ \A j \in DOMAIN ovl[k].output : Owners(ovl[k].output[j]) = {k}
      /\ (ovl[k].pc = "returned" /\ ~ovl[k].failed) =>
           /\ Len(ovl[k].output) = ovl[k].units
           /\ Owners(ovl[k].final) = {k}

\* B ran to its return after A had raised with its translate output in the
\* buffer.
C22_Witness ==
  /\ ovl["A"].pc = "raised"
  /\ "translated_chunks" \in DOMAIN ovl["B"].found
  /\ ovl["B"].warned
  /\ ovl["B"].pc = "returned"
  /\ ~ovl["B"].failed

\* C31: when the pool's threads take the queued work, every call of the
\* completion client returns or raises and the calling thread runs, a call of
\* agentic_translate that began comes to return its document or to raise: a
\* stage method that is collecting, or that raised while it was submitting,
\* does not wait for ever.
C31_Termination ==
  (pc \in {"stage", "unwind"}) ~> (pc \in {"returned", "raised"})

\* reflect raised while it was submitting, after it had submitted a unit, and
\* agentic_translate raised once the pool was joined.
C31_Witness ==
  /\ pc = "raised"
  /\ ret["reflect"].st = "raised"
  /\ Submitted("reflect") # {}
  /\ \A i \in Submitted("reflect") : Terminated("reflect", i)

=============================================================================
